---- MODULE Spec2Model ----
(***************************************************************************)
(* Credential and transport-security validators of                         *)
(* pkg/apis/monitoring/v1/types.go.                                        *)
(*                                                                         *)
(* A value object is held behind a pointer (every Validate method has a    *)
(* pointer receiver).  A Go pointer is modelled as a sequence of length 0  *)
(* (nil) or 1 (the pointee).  A Go error is modelled as the record         *)
(* [type, err]: the dynamic type of the error value and the string its     *)
(* Error() method returns; the nil error is NilError.  A Go string that    *)
(* the code only compares with "" is a TLA+ string; a string the code      *)
(* scans (Authorization.Type) is the sequence of its runes, each rune the   *)
(* number of its Unicode code point, as strings.TrimSpace and              *)
(* strings.ToLower see it.                                                 *)
(* The package-level map resourceToKind is the variable of that name; a    *)
(* lookup result is a record tagged with its Go type, a panic the record   *)
(* [type |-> "panic", err |-> the panic message].                          *)
(***************************************************************************)
EXTENDS Integers, Sequences, FiniteSets

VARIABLES obj, ret, resourceToKind, workers

vars == <<obj, ret, resourceToKind, workers>>

\* ------------------------------------------------------------------ bounds
\* Longest run of whitespace put in front of and behind an Authorization type.
MaxPad == 1

\* Number of reconciliation workers that call into the package concurrently.
NumWorkers == 2

\* ---------------------------------------------------------------- pointers
Nil == <<>>

Ptr(v) == <<v>>

Deref(p) == p[1]

\* ------------------------------------------------------------------ errors
NilError == [type |-> "nil", err |-> ""]

NotCalled == [type |-> "not called", err |-> ""]

Error(t, msg) == [type |-> t, err |-> msg]

\* panic(v): the call does not return, v is the value it panics with.
Panic(msg) == [type |-> "panic", err |-> msg]

\* ------------------------------------------------------------ value objects
\* v1.SecretKeySelector / v1.ConfigMapKeySelector values, the zero value included.
KeySelectors ==
    {[Name |-> "", Key |-> "", Optional |-> Nil],
     [Name |-> "obj", Key |-> "key", Optional |-> Nil]}

\* The composite literal v1.SecretKeySelector{}.
SecretKeySelectorZero == [Name |-> "", Key |-> "", Optional |-> Nil]

\* The values of a SecretKeySelector field held by value: as above, and a
\* selector that is not the zero value though its name and key are empty.
KeySelectorValues == KeySelectors \cup {[Name |-> "", Key |-> "", Optional |-> Ptr(FALSE)]}

KeySelectorPtrs == {Nil} \cup {Ptr(s) : s \in KeySelectors}

SecretOrConfigMaps == [Secret : KeySelectorPtrs, ConfigMap : KeySelectorPtrs]

\* The composite literal SecretOrConfigMap{}.
SecretOrConfigMapZero == [Secret |-> Nil, ConfigMap |-> Nil]

ServerNames == {"", "example.com"}

SafeTLSConfigs ==
    [CA : SecretOrConfigMaps, Cert : SecretOrConfigMaps, KeySecret : KeySelectorPtrs,
     ServerName : ServerNames, InsecureSkipVerify : BOOLEAN]

CAFiles == {"", "/etc/ca.pem"}

CertFiles == {"", "/etc/cert.pem"}

KeyFiles == {"", "/etc/key.pem"}

TLSConfigs ==
    [SafeTLSConfig : SafeTLSConfigs, CAFile : CAFiles, CertFile : CertFiles, KeyFile : KeyFiles]

TokenURLs == {"", "https://idp/token"}

ScopeLists == {<<>>, <<"read">>}

EndpointParamMaps == {<<>>, <<"audience", "prom">>}

OAuth2s ==
    [ClientID : SecretOrConfigMaps, ClientSecret : KeySelectors, TokenURL : TokenURLs,
     Scopes : ScopeLists, EndpointParams : EndpointParamMaps]

\* Authorization types: a core string between two runs of white space.
\* The padding runes: ' ', '\v' and U+00A0 (no-break space).
WhiteSpace == {32, 11, 160}

RECURSIVE SeqsUpTo(_, _)
SeqsUpTo(S, n) ==
    IF n = 0 THEN {<<>>}
    ELSE LET shorter == SeqsUpTo(S, n - 1)
         IN  shorter \cup {Append(s, x) : s \in shorter, x \in S}

Pads == SeqsUpTo(WhiteSpace, MaxPad)

\* "", "basic", "Basic", "BASIC", "ba sic", "basics", "Bearer",
\* "BAS\u0130C" (capital I with dot above) and "\u200Bbasic" (zero width
\* space, which is not white space).
TypeCores ==
    { <<>>,
      <<98, 97, 115, 105, 99>>,
      <<66, 97, 115, 105, 99>>,
      <<66, 65, 83, 73, 67>>,
      <<98, 97, 32, 115, 105, 99>>,
      <<98, 97, 115, 105, 99, 115>>,
      <<66, 101, 97, 114, 101, 114>>,
      <<66, 65, 83, 304, 67>>,
      <<8203, 98, 97, 115, 105, 99>> }

Types == {l \o core \o r : l \in Pads, core \in TypeCores, r \in Pads}

SafeAuthorizations == [Type : Types, Credentials : KeySelectorPtrs]

CredentialsFiles == {"", "/var/run/token"}

Authorizations == [SafeAuthorization : SafeAuthorizations, CredentialsFile : CredentialsFiles]

\* ProbeTargetStaticConfig values; the target list may be empty.
ProbeTargetStaticConfigs == [Targets : {<<>>, <<"host:9115">>}]

\* ProbeTargetIngress values; the label selector may be empty.
ProbeTargetIngresses == [Selector : {<<>>, <<"app", "web">>}]

ProbeTargetss ==
    [StaticConfig : {Nil} \cup {Ptr(v) : v \in ProbeTargetStaticConfigs},
     Ingress : {Nil} \cup {Ptr(v) : v \in ProbeTargetIngresses}]

\* monitoring.GroupName, the value the Group field documents as its default.
GroupName == "monitoring.coreos.com"

\* The composite literal that initializes the package variable resourceToKind.
ResourceToKindLiteral ==
    [r \in {"prometheuses", "alertmanagers", "servicemonitors", "podmonitors",
            "customprometheusrules", "probes"} |->
        CASE r = "prometheuses" -> "Prometheus"
          [] r = "alertmanagers" -> "Alertmanager"
          [] r = "servicemonitors" -> "ServiceMonitor"
          [] r = "podmonitors" -> "PodMonitor"
          [] r = "customprometheusrules" -> "CustomPrometheusRule"
          [] r = "probes" -> "Probe"]

\* The values the +kubebuilder:validation:Enum marker allows for ObjectReference.Resource.
SchemaResourceEnum == {"prometheusrules", "servicemonitors", "podmonitors", "probes"}

\* Resource names: the keys of the table, the names of the schema, and names of neither.
ResourceNames == DOMAIN ResourceToKindLiteral \cup SchemaResourceEnum \cup {"", "pods"}

Groups == {"", GroupName, "example.io"}

ObjectReferences ==
    [Group : Groups, Resource : ResourceNames, Namespace : {"default"}, Name : {"", "rules"}]

ClientAuthTypes == {"", "RequireAndVerifyClientCert"}

WebTLSConfigs ==
    [KeySecret : KeySelectorValues, Cert : SecretOrConfigMaps,
     ClientAuthType : ClientAuthTypes, ClientCA : SecretOrConfigMaps]

\* The receivers a Validate method can be called on.  Only the validators
\* that test their receiver against nil get a nil receiver.
Objects ==
    {[kind |-> "SecretOrConfigMap", ptr |-> Ptr(v)] : v \in SecretOrConfigMaps}
    \cup {[kind |-> "SafeTLSConfig", ptr |-> Ptr(v)] : v \in SafeTLSConfigs}
    \cup {[kind |-> "TLSConfig", ptr |-> Ptr(v)] : v \in TLSConfigs}
    \cup {[kind |-> "OAuth2", ptr |-> Ptr(v)] : v \in OAuth2s}
    \cup {[kind |-> "SafeAuthorization", ptr |-> p] :
             p \in {Nil} \cup {Ptr(v) : v \in SafeAuthorizations}}
    \cup {[kind |-> "Authorization", ptr |-> Ptr(v)] : v \in Authorizations}
    \cup {[kind |-> "ProbeTargets", ptr |-> Ptr(v)] : v \in ProbeTargetss}
    \cup {[kind |-> "ObjectReference", ptr |-> Ptr(v)] : v \in ObjectReferences}
    \cup {[kind |-> "WebTLSConfig", ptr |-> p] :
             p \in {Nil} \cup {Ptr(v) : v \in WebTLSConfigs}}

Ops ==
    {"SecretOrConfigMap.Validate", "SafeTLSConfig.Validate", "TLSConfig.Validate",
     "OAuth2.Validate", "SafeAuthorization.Validate", "Authorization.Validate",
     "ProbeTargets.Validate", "ObjectReference.GroupResource", "ObjectReference.GroupKind",
     "WebTLSConfig.Validate"}

\* ------------------------------------------------------------------ strings
\* unicode.IsSpace: the runes of Unicode's White_Space property.  In Latin-1
\* these are '\t', '\n', '\v', '\f', '\r', ' ', U+0085 and U+00A0.
IsSpace(r) ==
    \/ r \in {9, 10, 11, 12, 13, 32, 133, 160}
    \/ r \in {5760, 8232, 8233, 8239, 8287, 12288}
    \/ r \in 8192..8202

\* The runes ToLowerChar is defined on: Latin-1, Latin Extended-A, the
\* white space and format runes of General Punctuation, U+212A (Kelvin
\* sign), U+212B (Angstrom sign) and the other white space runes.
RuneDomain ==
    (0..383) \cup (8192..8303) \cup {5760, 8490, 8491, 12288}

\* unicode.ToLower, by the ranges of unicode.CaseRanges that lie in
\* RuneDomain.  A range of alternating upper and lower case letters lowers
\* its upper case letters by one.
ToLowerChar(r) ==
    CASE r \in 65..90 -> r + 32
      [] r \in (192..214) \cup (216..222) -> r + 32
      [] r \in ((256..303) \cup (306..311) \cup (330..375)) /\ r % 2 = 0 -> r + 1
      [] r \in ((313..328) \cup (377..382)) /\ r % 2 = 1 -> r + 1
      [] r = 304 -> 105
      [] r = 376 -> 255
      [] r = 8490 -> 107
      [] r = 8491 -> 229
      [] /\ r \in RuneDomain
         /\ r \notin (65..90) \cup (192..214) \cup (216..222) \cup {304, 376, 8490, 8491}
         /\ ~(r \in ((256..303) \cup (306..311) \cup (330..375)) /\ r % 2 = 0)
         /\ ~(r \in ((313..328) \cup (377..382)) /\ r % 2 = 1) -> r

\* strings.ToLower
ToLower(s) == [i \in 1..Len(s) |-> ToLowerChar(s[i])]

RECURSIVE TrimLeft(_)
TrimLeft(s) ==
    IF s # <<>> /\ IsSpace(Head(s)) THEN TrimLeft(Tail(s)) ELSE s

RECURSIVE TrimRight(_)
TrimRight(s) ==
    IF s # <<>> /\ IsSpace(s[Len(s)]) THEN TrimRight(SubSeq(s, 1, Len(s) - 1)) ELSE s

\* strings.TrimSpace
TrimSpace(s) == TrimRight(TrimLeft(s))

\* The string literal "basic".
Basic == <<98, 97, 115, 105, 99>>

\* --------------------------------------------------------------- validators
\* Variant: rejects as soon as one form is set.
SecretOrConfigMap_Validate_AnySet(c) ==
    IF c.Secret # Nil \/ c.ConfigMap # Nil
    THEN Error("SecretOrConfigMapValidationError",
               "SecretOrConfigMap can not specify both Secret and ConfigMap")
    ELSE NilError

\* func (c *SecretOrConfigMap) Validate() error
SecretOrConfigMap_Validate(c) ==
    IF c.Secret # Nil /\ c.ConfigMap # Nil
    THEN Error("SecretOrConfigMapValidationError",
               "SecretOrConfigMap can not specify both Secret and ConfigMap")
    ELSE NilError

\* Variant: the key-without-cert rule is left out.
SafeTLSConfig_Validate_NoMissingCert(c) ==
    IF c.CA # SecretOrConfigMapZero /\ SecretOrConfigMap_Validate(c.CA) # NilError
    THEN SecretOrConfigMap_Validate(c.CA)
    ELSE IF c.Cert # SecretOrConfigMapZero /\ SecretOrConfigMap_Validate(c.Cert) # NilError
    THEN SecretOrConfigMap_Validate(c.Cert)
    ELSE IF c.Cert # SecretOrConfigMapZero /\ c.KeySecret = Nil
    THEN Error("TLSConfigValidationError", "client cert specified without client key")
    ELSE NilError

\* Variant: a selector failure is reported under the name of its slot.
SafeTLSConfig_Validate_NamesSlot(c) ==
    IF c.CA # SecretOrConfigMapZero /\ SecretOrConfigMap_Validate(c.CA) # NilError
    THEN Error("TLSConfigValidationError", "tls config CA is invalid")
    ELSE IF c.Cert # SecretOrConfigMapZero /\ SecretOrConfigMap_Validate(c.Cert) # NilError
    THEN Error("TLSConfigValidationError", "tls config Cert is invalid")
    ELSE IF c.Cert # SecretOrConfigMapZero /\ c.KeySecret = Nil
    THEN Error("TLSConfigValidationError", "client cert specified without client key")
    ELSE IF c.KeySecret # Nil /\ c.Cert = SecretOrConfigMapZero
    THEN Error("TLSConfigValidationError", "client key specified without client cert")
    ELSE NilError

\* Variant: the cert/key pairing is tested before the selectors.
SafeTLSConfig_Validate_PairFirst(c) ==
    IF c.Cert # SecretOrConfigMapZero /\ c.KeySecret = Nil
    THEN Error("TLSConfigValidationError", "client cert specified without client key")
    ELSE IF c.KeySecret # Nil /\ c.Cert = SecretOrConfigMapZero
    THEN Error("TLSConfigValidationError", "client key specified without client cert")
    ELSE IF c.CA # SecretOrConfigMapZero /\ SecretOrConfigMap_Validate(c.CA) # NilError
    THEN SecretOrConfigMap_Validate(c.CA)
    ELSE IF c.Cert # SecretOrConfigMapZero /\ SecretOrConfigMap_Validate(c.Cert) # NilError
    THEN SecretOrConfigMap_Validate(c.Cert)
    ELSE NilError

\* func (c *SafeTLSConfig) Validate() error
SafeTLSConfig_Validate(c) ==
    IF c.CA # SecretOrConfigMapZero /\ SecretOrConfigMap_Validate(c.CA) # NilError
    THEN SecretOrConfigMap_Validate(c.CA)
    ELSE IF c.Cert # SecretOrConfigMapZero /\ SecretOrConfigMap_Validate(c.Cert) # NilError
    THEN SecretOrConfigMap_Validate(c.Cert)
    ELSE IF c.Cert # SecretOrConfigMapZero /\ c.KeySecret = Nil
    THEN Error("TLSConfigValidationError", "client cert specified without client key")
    ELSE IF c.KeySecret # Nil /\ c.Cert = SecretOrConfigMapZero
    THEN Error("TLSConfigValidationError", "client key specified without client cert")
    ELSE NilError

\* Variant: the KeyFile/KeySecret exclusion is left out.
TLSConfig_Validate_NoKeyConflict(c) ==
    LET CA == c.SafeTLSConfig.CA
        Cert == c.SafeTLSConfig.Cert
        KeySecret == c.SafeTLSConfig.KeySecret
        hasCert == c.CertFile # "" \/ Cert # SecretOrConfigMapZero
        hasKey == c.KeyFile # "" \/ KeySecret # Nil
    IN  IF CA # SecretOrConfigMapZero /\ c.CAFile # ""
        THEN Error("TLSConfigValidationError", "tls config can not both specify CAFile and CA")
        ELSE IF CA # SecretOrConfigMapZero /\ SecretOrConfigMap_Validate(CA) # NilError
        THEN Error("TLSConfigValidationError", "tls config CA is invalid")
        ELSE IF Cert # SecretOrConfigMapZero /\ c.CertFile # ""
        THEN Error("TLSConfigValidationError", "tls config can not both specify CertFile and Cert")
        ELSE IF Cert # SecretOrConfigMapZero /\ SecretOrConfigMap_Validate(Cert) # NilError
        THEN Error("TLSConfigValidationError", "tls config Cert is invalid")
        ELSE IF hasCert /\ ~hasKey
        THEN Error("TLSConfigValidationError", "tls config can not specify client cert without client key")
        ELSE IF hasKey /\ ~hasCert
        THEN Error("TLSConfigValidationError", "tls config can not specify client key without client cert")
        ELSE NilError

\* Variant: the cert/key pairing looks at the references only, not at the file paths.
TLSConfig_Validate_RefOnlyPair(c) ==
    LET CA == c.SafeTLSConfig.CA
        Cert == c.SafeTLSConfig.Cert
        KeySecret == c.SafeTLSConfig.KeySecret
        hasCert == Cert # SecretOrConfigMapZero
        hasKey == KeySecret # Nil
    IN  IF CA # SecretOrConfigMapZero /\ c.CAFile # ""
        THEN Error("TLSConfigValidationError", "tls config can not both specify CAFile and CA")
        ELSE IF CA # SecretOrConfigMapZero /\ SecretOrConfigMap_Validate(CA) # NilError
        THEN Error("TLSConfigValidationError", "tls config CA is invalid")
        ELSE IF Cert # SecretOrConfigMapZero /\ c.CertFile # ""
        THEN Error("TLSConfigValidationError", "tls config can not both specify CertFile and Cert")
        ELSE IF Cert # SecretOrConfigMapZero /\ SecretOrConfigMap_Validate(Cert) # NilError
        THEN Error("TLSConfigValidationError", "tls config Cert is invalid")
        ELSE IF c.KeyFile # "" /\ KeySecret # Nil
        THEN Error("TLSConfigValidationError", "tls config can not both specify KeyFile and KeySecret")
        ELSE IF hasCert /\ ~hasKey
        THEN Error("TLSConfigValidationError", "tls config can not specify client cert without client key")
        ELSE IF hasKey /\ ~hasCert
        THEN Error("TLSConfigValidationError", "tls config can not specify client key without client cert")
        ELSE NilError

\* Variant: the Cert selector is not validated.
TLSConfig_Validate_NoCertValidity(c) ==
    LET CA == c.SafeTLSConfig.CA
        Cert == c.SafeTLSConfig.Cert
        KeySecret == c.SafeTLSConfig.KeySecret
        hasCert == c.CertFile # "" \/ Cert # SecretOrConfigMapZero
        hasKey == c.KeyFile # "" \/ KeySecret # Nil
    IN  IF CA # SecretOrConfigMapZero /\ c.CAFile # ""
        THEN Error("TLSConfigValidationError", "tls config can not both specify CAFile and CA")
        ELSE IF CA # SecretOrConfigMapZero /\ SecretOrConfigMap_Validate(CA) # NilError
        THEN Error("TLSConfigValidationError", "tls config CA is invalid")
        ELSE IF Cert # SecretOrConfigMapZero /\ c.CertFile # ""
        THEN Error("TLSConfigValidationError", "tls config can not both specify CertFile and Cert")
        ELSE IF c.KeyFile # "" /\ KeySecret # Nil
        THEN Error("TLSConfigValidationError", "tls config can not both specify KeyFile and KeySecret")
        ELSE IF hasCert /\ ~hasKey
        THEN Error("TLSConfigValidationError", "tls config can not specify client cert without client key")
        ELSE IF hasKey /\ ~hasCert
        THEN Error("TLSConfigValidationError", "tls config can not specify client key without client cert")
        ELSE NilError

\* Variant: the cert/key pairing is tested before the exclusions.
TLSConfig_Validate_PairFirst(c) ==
    LET CA == c.SafeTLSConfig.CA
        Cert == c.SafeTLSConfig.Cert
        KeySecret == c.SafeTLSConfig.KeySecret
        hasCert == c.CertFile # "" \/ Cert # SecretOrConfigMapZero
        hasKey == c.KeyFile # "" \/ KeySecret # Nil
    IN  IF hasCert /\ ~hasKey
        THEN Error("TLSConfigValidationError", "tls config can not specify client cert without client key")
        ELSE IF hasKey /\ ~hasCert
        THEN Error("TLSConfigValidationError", "tls config can not specify client key without client cert")
        ELSE IF CA # SecretOrConfigMapZero /\ c.CAFile # ""
        THEN Error("TLSConfigValidationError", "tls config can not both specify CAFile and CA")
        ELSE IF CA # SecretOrConfigMapZero /\ SecretOrConfigMap_Validate(CA) # NilError
        THEN Error("TLSConfigValidationError", "tls config CA is invalid")
        ELSE IF Cert # SecretOrConfigMapZero /\ c.CertFile # ""
        THEN Error("TLSConfigValidationError", "tls config can not both specify CertFile and Cert")
        ELSE IF Cert # SecretOrConfigMapZero /\ SecretOrConfigMap_Validate(Cert) # NilError
        THEN Error("TLSConfigValidationError", "tls config Cert is invalid")
        ELSE IF c.KeyFile # "" /\ KeySecret # Nil
        THEN Error("TLSConfigValidationError", "tls config can not both specify KeyFile and KeySecret")
        ELSE NilError

\* Variant: the CA selector is not validated.
TLSConfig_Validate_NoCAValidity(c) ==
    LET CA == c.SafeTLSConfig.CA
        Cert == c.SafeTLSConfig.Cert
        KeySecret == c.SafeTLSConfig.KeySecret
        hasCert == c.CertFile # "" \/ Cert # SecretOrConfigMapZero
        hasKey == c.KeyFile # "" \/ KeySecret # Nil
    IN  IF CA # SecretOrConfigMapZero /\ c.CAFile # ""
        THEN Error("TLSConfigValidationError", "tls config can not both specify CAFile and CA")
        ELSE IF Cert # SecretOrConfigMapZero /\ c.CertFile # ""
        THEN Error("TLSConfigValidationError", "tls config can not both specify CertFile and Cert")
        ELSE IF Cert # SecretOrConfigMapZero /\ SecretOrConfigMap_Validate(Cert) # NilError
        THEN Error("TLSConfigValidationError", "tls config Cert is invalid")
        ELSE IF c.KeyFile # "" /\ KeySecret # Nil
        THEN Error("TLSConfigValidationError", "tls config can not both specify KeyFile and KeySecret")
        ELSE IF hasCert /\ ~hasKey
        THEN Error("TLSConfigValidationError", "tls config can not specify client cert without client key")
        ELSE IF hasKey /\ ~hasCert
        THEN Error("TLSConfigValidationError", "tls config can not specify client key without client cert")
        ELSE NilError

\* Variant: a selector failure is returned as it is, as the safe validator does.
TLSConfig_Validate_BareSelectorError(c) ==
    LET CA == c.SafeTLSConfig.CA
        Cert == c.SafeTLSConfig.Cert
        KeySecret == c.SafeTLSConfig.KeySecret
        hasCert == c.CertFile # "" \/ Cert # SecretOrConfigMapZero
        hasKey == c.KeyFile # "" \/ KeySecret # Nil
    IN  IF CA # SecretOrConfigMapZero /\ c.CAFile # ""
        THEN Error("TLSConfigValidationError", "tls config can not both specify CAFile and CA")
        ELSE IF CA # SecretOrConfigMapZero /\ SecretOrConfigMap_Validate(CA) # NilError
        THEN SecretOrConfigMap_Validate(CA)
        ELSE IF Cert # SecretOrConfigMapZero /\ c.CertFile # ""
        THEN Error("TLSConfigValidationError", "tls config can not both specify CertFile and Cert")
        ELSE IF Cert # SecretOrConfigMapZero /\ SecretOrConfigMap_Validate(Cert) # NilError
        THEN SecretOrConfigMap_Validate(Cert)
        ELSE IF c.KeyFile # "" /\ KeySecret # Nil
        THEN Error("TLSConfigValidationError", "tls config can not both specify KeyFile and KeySecret")
        ELSE IF hasCert /\ ~hasKey
        THEN Error("TLSConfigValidationError", "tls config can not specify client cert without client key")
        ELSE IF hasKey /\ ~hasCert
        THEN Error("TLSConfigValidationError", "tls config can not specify client key without client cert")
        ELSE NilError

\* func (c *TLSConfig) Validate() error; CA, Cert and KeySecret are the
\* promoted fields of the embedded SafeTLSConfig.
TLSConfig_Validate(c) ==
    LET CA == c.SafeTLSConfig.CA
        Cert == c.SafeTLSConfig.Cert
        KeySecret == c.SafeTLSConfig.KeySecret
        hasCert == c.CertFile # "" \/ Cert # SecretOrConfigMapZero
        hasKey == c.KeyFile # "" \/ KeySecret # Nil
    IN  IF CA # SecretOrConfigMapZero /\ c.CAFile # ""
        THEN Error("TLSConfigValidationError", "tls config can not both specify CAFile and CA")
        ELSE IF CA # SecretOrConfigMapZero /\ SecretOrConfigMap_Validate(CA) # NilError
        THEN Error("TLSConfigValidationError", "tls config CA is invalid")
        ELSE IF Cert # SecretOrConfigMapZero /\ c.CertFile # ""
        THEN Error("TLSConfigValidationError", "tls config can not both specify CertFile and Cert")
        ELSE IF Cert # SecretOrConfigMapZero /\ SecretOrConfigMap_Validate(Cert) # NilError
        THEN Error("TLSConfigValidationError", "tls config Cert is invalid")
        ELSE IF c.KeyFile # "" /\ KeySecret # Nil
        THEN Error("TLSConfigValidationError", "tls config can not both specify KeyFile and KeySecret")
        ELSE IF hasCert /\ ~hasKey
        THEN Error("TLSConfigValidationError", "tls config can not specify client cert without client key")
        ELSE IF hasKey /\ ~hasCert
        THEN Error("TLSConfigValidationError", "tls config can not specify client key without client cert")
        ELSE NilError

\* Variant: the client-id rules run before the token-URL rule.
OAuth2_Validate_ClientIDFirst(o) ==
    IF o.ClientID = SecretOrConfigMapZero
    THEN Error("OAuth2ValidationError", "OAuth2 client id must be specified")
    ELSE IF SecretOrConfigMap_Validate(o.ClientID) # NilError
    THEN Error("OAuth2ValidationError",
               "invalid OAuth2 client id: " \o SecretOrConfigMap_Validate(o.ClientID).err)
    ELSE IF o.TokenURL = ""
    THEN Error("OAuth2ValidationError", "OAuth2 token url must be specified")
    ELSE NilError

\* Variant: the client-id selector's error is returned as it is, not wrapped.
OAuth2_Validate_Unwrapped(o) ==
    IF o.TokenURL = ""
    THEN Error("OAuth2ValidationError", "OAuth2 token url must be specified")
    ELSE IF o.ClientID = SecretOrConfigMapZero
    THEN Error("OAuth2ValidationError", "OAuth2 client id must be specified")
    ELSE SecretOrConfigMap_Validate(o.ClientID)

\* Variant: a client secret is required.
OAuth2_Validate_NeedsClientSecret(o) ==
    IF o.TokenURL = ""
    THEN Error("OAuth2ValidationError", "OAuth2 token url must be specified")
    ELSE IF o.ClientID = SecretOrConfigMapZero
    THEN Error("OAuth2ValidationError", "OAuth2 client id must be specified")
    ELSE IF SecretOrConfigMap_Validate(o.ClientID) # NilError
    THEN Error("OAuth2ValidationError",
               "invalid OAuth2 client id: " \o SecretOrConfigMap_Validate(o.ClientID).err)
    ELSE IF o.ClientSecret = SecretKeySelectorZero
    THEN Error("OAuth2ValidationError", "OAuth2 client secret must be specified")
    ELSE NilError

\* func (o *OAuth2) Validate() error
OAuth2_Validate(o) ==
    IF o.TokenURL = ""
    THEN Error("OAuth2ValidationError", "OAuth2 token url must be specified")
    ELSE IF o.ClientID = SecretOrConfigMapZero
    THEN Error("OAuth2ValidationError", "OAuth2 client id must be specified")
    ELSE IF SecretOrConfigMap_Validate(o.ClientID) # NilError
    THEN Error("OAuth2ValidationError",
               "invalid OAuth2 client id: " \o SecretOrConfigMap_Validate(o.ClientID).err)
    ELSE NilError

\* Variant: the credentials rule runs before the reserved-type rule.
SafeAuthorization_Validate_CredentialsFirst(p) ==
    IF p = Nil
    THEN NilError
    ELSE IF Deref(p).Credentials = Nil
    THEN Error("AuthorizationValidationError", "Authorization credentials are required")
    ELSE IF ToLower(TrimSpace(Deref(p).Type)) = Basic
    THEN Error("AuthorizationValidationError",
               "Authorization type cannot be set to \"basic\", use \"basic_auth\" instead")
    ELSE NilError

\* Variant: the credentials rule is left out.
SafeAuthorization_Validate_NoCredentialsRule(p) ==
    IF p = Nil
    THEN NilError
    ELSE IF ToLower(TrimSpace(Deref(p).Type)) = Basic
    THEN Error("AuthorizationValidationError",
               "Authorization type cannot be set to \"basic\", use \"basic_auth\" instead")
    ELSE NilError

\* Variant: a nil receiver is rejected for its missing credentials.
SafeAuthorization_Validate_NilRejected(p) ==
    IF p = Nil
    THEN Error("AuthorizationValidationError", "Authorization credentials are required")
    ELSE IF ToLower(TrimSpace(Deref(p).Type)) = Basic
    THEN Error("AuthorizationValidationError",
               "Authorization type cannot be set to \"basic\", use \"basic_auth\" instead")
    ELSE IF Deref(p).Credentials = Nil
    THEN Error("AuthorizationValidationError", "Authorization credentials are required")
    ELSE NilError

\* func (c *SafeAuthorization) Validate() error; p is the receiver pointer.
SafeAuthorization_Validate(p) ==
    IF p = Nil
    THEN NilError
    ELSE IF ToLower(TrimSpace(Deref(p).Type)) = Basic
    THEN Error("AuthorizationValidationError",
               "Authorization type cannot be set to \"basic\", use \"basic_auth\" instead")
    ELSE IF Deref(p).Credentials = Nil
    THEN Error("AuthorizationValidationError", "Authorization credentials are required")
    ELSE NilError

\* Variant: credentials are required, as in the safe validator.
Authorization_Validate_RequiresCredentials(c) ==
    IF c.SafeAuthorization.Credentials # Nil /\ c.CredentialsFile # ""
    THEN Error("AuthorizationValidationError",
               "Authorization can not specify both Credentials and CredentialsFile")
    ELSE IF ToLower(TrimSpace(c.SafeAuthorization.Type)) = Basic
    THEN Error("AuthorizationValidationError",
               "Authorization type cannot be set to \"basic\", use \"basic_auth\" instead")
    ELSE IF c.SafeAuthorization.Credentials = Nil
    THEN Error("AuthorizationValidationError", "Authorization credentials are required")
    ELSE NilError

\* Variant: the reserved-type rule is left out.
Authorization_Validate_NoTypeRule(c) ==
    IF c.SafeAuthorization.Credentials # Nil /\ c.CredentialsFile # ""
    THEN Error("AuthorizationValidationError",
               "Authorization can not specify both Credentials and CredentialsFile")
    ELSE NilError

\* Variant: the reserved-type rule is tested before the exclusion.
Authorization_Validate_TypeFirst(c) ==
    IF ToLower(TrimSpace(c.SafeAuthorization.Type)) = Basic
    THEN Error("AuthorizationValidationError",
               "Authorization type cannot be set to \"basic\", use \"basic_auth\" instead")
    ELSE IF c.SafeAuthorization.Credentials # Nil /\ c.CredentialsFile # ""
    THEN Error("AuthorizationValidationError",
               "Authorization can not specify both Credentials and CredentialsFile")
    ELSE NilError

\* func (c *Authorization) Validate() error; Type and Credentials are the
\* promoted fields of the embedded SafeAuthorization.
Authorization_Validate(c) ==
    IF c.SafeAuthorization.Credentials # Nil /\ c.CredentialsFile # ""
    THEN Error("AuthorizationValidationError",
               "Authorization can not specify both Credentials and CredentialsFile")
    ELSE IF ToLower(TrimSpace(c.SafeAuthorization.Type)) = Basic
    THEN Error("AuthorizationValidationError",
               "Authorization type cannot be set to \"basic\", use \"basic_auth\" instead")
    ELSE NilError

\* Variant: rejects when one of the two sources is absent.
ProbeTargets_Validate_NeedsBoth(it) ==
    IF it.StaticConfig = Nil \/ it.Ingress = Nil
    THEN Error("ProbeTargetsValidationError",
               "at least one of .spec.targets.staticConfig and .spec.targets.ingress is required")
    ELSE NilError

\* Variant: a static source without targets counts as absent.
ProbeTargets_Validate_NeedsTargets(it) ==
    IF (it.StaticConfig = Nil \/ Len(Deref(it.StaticConfig).Targets) = 0) /\ it.Ingress = Nil
    THEN Error("ProbeTargetsValidationError",
               "at least one of .spec.targets.staticConfig and .spec.targets.ingress is required")
    ELSE NilError

\* Variant: the target list is read through the static source without a
\* nil test, a nil pointer dereference when the source is absent.
ProbeTargets_Validate_DerefsStatic(it) ==
    IF it.StaticConfig = Nil
    THEN Panic("runtime error: invalid memory address or nil pointer dereference")
    ELSE IF Len(Deref(it.StaticConfig).Targets) = 0 /\ it.Ingress = Nil
    THEN Error("ProbeTargetsValidationError",
               "at least one of .spec.targets.staticConfig and .spec.targets.ingress is required")
    ELSE NilError

\* func (it *ProbeTargets) Validate() error
ProbeTargets_Validate(it) ==
    IF it.StaticConfig = Nil /\ it.Ingress = Nil
    THEN Error("ProbeTargetsValidationError",
               "at least one of .spec.targets.staticConfig and .spec.targets.ingress is required")
    ELSE NilError

\* Variant: the key is tested before the cert.
WebTLSConfig_Validate_KeyFirst(p) ==
    IF p = Nil
    THEN NilError
    ELSE IF Deref(p).ClientCA # SecretOrConfigMapZero
            /\ SecretOrConfigMap_Validate(Deref(p).ClientCA) # NilError
    THEN Error("WebTLSConfigError",
               "invalid web tls config: " \o SecretOrConfigMap_Validate(Deref(p).ClientCA).err)
    ELSE IF Deref(p).KeySecret = SecretKeySelectorZero
    THEN Error("WebTLSConfigError", "invalid web tls config: key must be defined")
    ELSE IF Deref(p).Cert = SecretOrConfigMapZero
    THEN Error("WebTLSConfigError", "invalid web tls config: cert must be defined")
    ELSE IF SecretOrConfigMap_Validate(Deref(p).Cert) # NilError
    THEN Error("WebTLSConfigError",
               "invalid web tls config: " \o SecretOrConfigMap_Validate(Deref(p).Cert).err)
    ELSE NilError

\* func (c *WebTLSConfig) Validate() error; p is the receiver pointer.
WebTLSConfig_Validate(p) ==
    IF p = Nil
    THEN NilError
    ELSE IF Deref(p).ClientCA # SecretOrConfigMapZero
            /\ SecretOrConfigMap_Validate(Deref(p).ClientCA) # NilError
    THEN Error("WebTLSConfigError",
               "invalid web tls config: " \o SecretOrConfigMap_Validate(Deref(p).ClientCA).err)
    ELSE IF Deref(p).Cert = SecretOrConfigMapZero
    THEN Error("WebTLSConfigError", "invalid web tls config: cert must be defined")
    ELSE IF SecretOrConfigMap_Validate(Deref(p).Cert) # NilError
    THEN Error("WebTLSConfigError",
               "invalid web tls config: " \o SecretOrConfigMap_Validate(Deref(p).Cert).err)
    ELSE IF Deref(p).KeySecret = SecretKeySelectorZero
    THEN Error("WebTLSConfigError", "invalid web tls config: key must be defined")
    ELSE NilError

\* ----------------------------------------------------------------- resolver
\* fmt.Sprintf("failed to map resource %q to a kind", resource), for the
\* names of the model, which %q quotes without escapes.
FailedToMap(resource) == "failed to map resource \"" \o resource \o "\" to a kind"

\* Variant: the reference's own group is ignored.
getGroup_AlwaysDefault(o) == GroupName

\* func (obj *ObjectReference) getGroup() string
getGroup(o) == IF o.Group = "" THEN GroupName ELSE o.Group

\* Variant: the resource name is looked up in the table, as GroupKind does.
ObjectReference_GroupResource_ConsultsTable(o) ==
    IF o.Resource \notin DOMAIN ResourceToKindLiteral
    THEN Panic(FailedToMap(o.Resource))
    ELSE [type |-> "schema.GroupResource", Resource |-> o.Resource, Group |-> getGroup(o)]

\* func (obj *ObjectReference) GroupResource() schema.GroupResource
ObjectReference_GroupResource(o) ==
    [type |-> "schema.GroupResource", Resource |-> o.Resource, Group |-> getGroup(o)]

\* The result of the map index expression m[key]: the value and whether the
\* key is present; the zero value "" for an absent key.
MapIndex(m, key) ==
    IF key \in DOMAIN m THEN [value |-> m[key], found |-> TRUE]
    ELSE [value |-> "", found |-> FALSE]

\* Variant: the found test is left out, an unknown name gets the zero kind.
ObjectReference_GroupKind_NoFoundTest(o, table) ==
    [type |-> "schema.GroupKind", Kind |-> MapIndex(table, o.Resource).value,
     Group |-> getGroup(o)]

\* func (obj *ObjectReference) GroupKind() schema.GroupKind, reading table
\* for the package variable resourceToKind.
ObjectReference_GroupKind(o, table) ==
    IF ~MapIndex(table, o.Resource).found
    THEN Panic(FailedToMap(o.Resource))
    ELSE [type |-> "schema.GroupKind", Kind |-> MapIndex(table, o.Resource).value,
          Group |-> getGroup(o)]

\* ------------------------------------------------------------------ workers
Workers == 1..NumWorkers

\* A worker: where it stands in its call, the operation it called and the
\* outcome it got.
Idle == [pc |-> "idle", op |-> "", res |-> NotCalled]

\* The operations that can be called on an object of kind k.
OpsOf(k) ==
    CASE k = "SecretOrConfigMap" -> {"SecretOrConfigMap.Validate"}
      [] k = "SafeTLSConfig" -> {"SafeTLSConfig.Validate"}
      [] k = "TLSConfig" -> {"SafeTLSConfig.Validate", "TLSConfig.Validate"}
      [] k = "OAuth2" -> {"OAuth2.Validate"}
      [] k = "SafeAuthorization" -> {"SafeAuthorization.Validate"}
      [] k = "Authorization" -> {"SafeAuthorization.Validate", "Authorization.Validate"}
      [] k = "ProbeTargets" -> {"ProbeTargets.Validate"}
      [] k = "ObjectReference" -> {"ObjectReference.GroupResource", "ObjectReference.GroupKind"}
      [] k = "WebTLSConfig" -> {"WebTLSConfig.Validate"}

\* ------------------------------------------------------------ state machine
Init ==
    /\ obj \in Objects
    /\ ret = [op \in Ops |-> NotCalled]
    /\ resourceToKind = ResourceToKindLiteral
    /\ workers = [w \in Workers |-> Idle]

Return(op, e) == ret' = [ret EXCEPT ![op] = e]

Call_SecretOrConfigMap_Validate ==
    /\ obj.kind = "SecretOrConfigMap"
    /\ Return("SecretOrConfigMap.Validate", SecretOrConfigMap_Validate(Deref(obj.ptr)))
    /\ UNCHANGED <<obj, resourceToKind, workers>>

\* The SafeTLSConfig of o: o itself, or the struct a TLSConfig embeds.
SafeTLSConfigOf(o) ==
    IF o.kind = "TLSConfig" THEN Deref(o.ptr).SafeTLSConfig ELSE Deref(o.ptr)

\* c.Validate() on a SafeTLSConfig, c.SafeTLSConfig.Validate() on a TLSConfig.
Call_SafeTLSConfig_Validate ==
    /\ obj.kind \in {"SafeTLSConfig", "TLSConfig"}
    /\ Return("SafeTLSConfig.Validate", SafeTLSConfig_Validate(SafeTLSConfigOf(obj)))
    /\ UNCHANGED <<obj, resourceToKind, workers>>

Call_TLSConfig_Validate ==
    /\ obj.kind = "TLSConfig"
    /\ Return("TLSConfig.Validate", TLSConfig_Validate(Deref(obj.ptr)))
    /\ UNCHANGED <<obj, resourceToKind, workers>>

Call_OAuth2_Validate ==
    /\ obj.kind = "OAuth2"
    /\ Return("OAuth2.Validate", OAuth2_Validate(Deref(obj.ptr)))
    /\ UNCHANGED <<obj, resourceToKind, workers>>

\* The pointer to the SafeAuthorization of o: o's own pointer, or the address
\* of the struct an Authorization embeds.
SafeAuthorizationOf(o) ==
    IF o.kind = "Authorization" THEN Ptr(Deref(o.ptr).SafeAuthorization) ELSE o.ptr

\* c.Validate() on a SafeAuthorization, c.SafeAuthorization.Validate() on an Authorization.
Call_SafeAuthorization_Validate ==
    /\ obj.kind \in {"SafeAuthorization", "Authorization"}
    /\ Return("SafeAuthorization.Validate", SafeAuthorization_Validate(SafeAuthorizationOf(obj)))
    /\ UNCHANGED <<obj, resourceToKind, workers>>

\* Variant: the type is normalized in place before it is tested.
Call_Authorization_Validate_NormalizesInPlace ==
    /\ obj.kind = "Authorization"
    /\ Return("Authorization.Validate", Authorization_Validate(Deref(obj.ptr)))
    /\ obj' = [obj EXCEPT !.ptr[1].SafeAuthorization.Type = ToLower(TrimSpace(@))]
    /\ UNCHANGED <<resourceToKind, workers>>

Call_Authorization_Validate ==
    /\ obj.kind = "Authorization"
    /\ Return("Authorization.Validate", Authorization_Validate(Deref(obj.ptr)))
    /\ UNCHANGED <<obj, resourceToKind, workers>>

Call_ProbeTargets_Validate ==
    /\ obj.kind = "ProbeTargets"
    /\ Return("ProbeTargets.Validate", ProbeTargets_Validate(Deref(obj.ptr)))
    /\ UNCHANGED <<obj, resourceToKind, workers>>

Call_WebTLSConfig_Validate ==
    /\ obj.kind = "WebTLSConfig"
    /\ Return("WebTLSConfig.Validate", WebTLSConfig_Validate(obj.ptr))
    /\ UNCHANGED <<obj, resourceToKind, workers>>

Call_ObjectReference_GroupResource ==
    /\ obj.kind = "ObjectReference"
    /\ Return("ObjectReference.GroupResource", ObjectReference_GroupResource(Deref(obj.ptr)))
    /\ UNCHANGED <<obj, resourceToKind, workers>>

Call_ObjectReference_GroupKind ==
    /\ obj.kind = "ObjectReference"
    /\ Return("ObjectReference.GroupKind",
              ObjectReference_GroupKind(Deref(obj.ptr), resourceToKind))
    /\ UNCHANGED <<obj, resourceToKind, workers>>

\* The outcome of the call of op on o, run from its first statement to its
\* return with nothing in between.
Outcome(op, o, table) ==
    CASE op = "SecretOrConfigMap.Validate" -> SecretOrConfigMap_Validate(Deref(o.ptr))
      [] op = "SafeTLSConfig.Validate" -> SafeTLSConfig_Validate(SafeTLSConfigOf(o))
      [] op = "TLSConfig.Validate" -> TLSConfig_Validate(Deref(o.ptr))
      [] op = "OAuth2.Validate" -> OAuth2_Validate(Deref(o.ptr))
      [] op = "SafeAuthorization.Validate" -> SafeAuthorization_Validate(SafeAuthorizationOf(o))
      [] op = "Authorization.Validate" -> Authorization_Validate(Deref(o.ptr))
      [] op = "ProbeTargets.Validate" -> ProbeTargets_Validate(Deref(o.ptr))
      [] op = "ObjectReference.GroupResource" -> ObjectReference_GroupResource(Deref(o.ptr))
      [] op = "ObjectReference.GroupKind" -> ObjectReference_GroupKind(Deref(o.ptr), table)
      [] op = "WebTLSConfig.Validate" -> WebTLSConfig_Validate(o.ptr)

\* Worker w calls op on the shared object.
W_Call(w, op) ==
    /\ workers[w].pc = "idle"
    /\ op \in OpsOf(obj.kind)
    /\ workers' = [workers EXCEPT ![w] = [pc |-> "called", op |-> op, res |-> NotCalled]]
    /\ UNCHANGED <<obj, ret, resourceToKind>>

\* Worker w runs the body of a validator or of GroupResource: it reads the
\* receiver and returns.
W_Return(w) ==
    /\ workers[w].pc = "called"
    /\ workers[w].op # "ObjectReference.GroupKind"
    /\ workers' = [workers EXCEPT ![w].pc = "done",
                                  ![w].res = Outcome(workers[w].op, obj, resourceToKind)]
    /\ UNCHANGED <<obj, ret, resourceToKind>>

\* Variant: an unknown name is entered into the table with the zero kind,
\* as an indexing assignment on the map would do.
W_GroupKind_Found_Registers(w) ==
    /\ workers[w].pc = "called"
    /\ workers[w].op = "ObjectReference.GroupKind"
    /\ IF MapIndex(resourceToKind, Deref(obj.ptr).Resource).found
       THEN /\ workers' = [workers EXCEPT ![w].pc = "found"]
            /\ UNCHANGED resourceToKind
       ELSE /\ workers' = [workers EXCEPT ![w].pc = "done",
                                          ![w].res = Panic(FailedToMap(Deref(obj.ptr).Resource))]
            /\ resourceToKind' =
                   [r \in DOMAIN resourceToKind \cup {Deref(obj.ptr).Resource} |->
                       MapIndex(resourceToKind, r).value]
    /\ UNCHANGED <<obj, ret>>

\* Worker w in GroupKind: the first read of the table, _, found :=
\* resourceToKind[obj.Resource], and the panic when the name is not found.
W_GroupKind_Found(w) ==
    /\ workers[w].pc = "called"
    /\ workers[w].op = "ObjectReference.GroupKind"
    /\ IF MapIndex(resourceToKind, Deref(obj.ptr).Resource).found
       THEN workers' = [workers EXCEPT ![w].pc = "found"]
       ELSE workers' = [workers EXCEPT ![w].pc = "done",
                                       ![w].res = Panic(FailedToMap(Deref(obj.ptr).Resource))]
    /\ UNCHANGED <<obj, ret, resourceToKind>>

\* Worker w in GroupKind: the second read of the table, in the returned
\* composite literal.
W_GroupKind_Return(w) ==
    /\ workers[w].pc = "found"
    /\ workers' = [workers EXCEPT ![w].pc = "done",
                                  ![w].res = [type |-> "schema.GroupKind",
                                              Kind |-> MapIndex(resourceToKind,
                                                                Deref(obj.ptr).Resource).value,
                                              Group |-> getGroup(Deref(obj.ptr))]]
    /\ UNCHANGED <<obj, ret, resourceToKind>>

Next ==
    \/ Call_SecretOrConfigMap_Validate
    \/ Call_SafeTLSConfig_Validate
    \/ Call_TLSConfig_Validate
    \/ Call_OAuth2_Validate
    \/ Call_SafeAuthorization_Validate
    \/ Call_Authorization_Validate
    \/ Call_ProbeTargets_Validate
    \/ Call_ObjectReference_GroupResource
    \/ Call_ObjectReference_GroupKind
    \/ Call_WebTLSConfig_Validate

Spec == Init /\ [][Next]_vars

NextConcurrent ==
    \E w \in Workers :
        \/ \E op \in Ops : W_Call(w, op)
        \/ W_Return(w)
        \/ W_GroupKind_Found(w)
        \/ W_GroupKind_Return(w)

\* The workers call into the package concurrently, on one shared object and
\* the shared table, with no synchronization between them.
SpecConcurrent == Init /\ [][NextConcurrent]_vars

TypeOK ==
    /\ obj \in Objects
    /\ DOMAIN ret = Ops
    /\ DOMAIN resourceToKind \subseteq ResourceNames

\* ------------------------------------------------------------------ claims
\* The receiver's pointee.
Val == Deref(obj.ptr)

Returned(op) == ret[op] # NotCalled

Failed(op) == Returned(op) /\ ret[op] # NilError

Accepted(op) == ret[op] = NilError

BothForms(sel) == sel.Secret # Nil /\ sel.ConfigMap # Nil

\* C1: SecretOrConfigMap.Validate returns an error (the selector-conflict
\* error) if and only if both the Secret and the ConfigMap form are set; a
\* selector with one form or with none is accepted.
C1_SelectorFailsIffBothForms ==
    (obj.kind = "SecretOrConfigMap" /\ Returned("SecretOrConfigMap.Validate")) =>
        /\ Failed("SecretOrConfigMap.Validate") <=> BothForms(Val)
        /\ Failed("SecretOrConfigMap.Validate") =>
               ret["SecretOrConfigMap.Validate"].type = "SecretOrConfigMapValidationError"

C1_Witness ==
    /\ obj.kind = "SecretOrConfigMap"
    /\ Val.Secret # Nil /\ Val.ConfigMap = Nil
    /\ Accepted("SecretOrConfigMap.Validate")

\* The SafeTLSConfig that SafeTLSConfig.Validate ran on.
Safe == SafeTLSConfigOf(obj)

IsSafeTLS == obj.kind \in {"SafeTLSConfig", "TLSConfig"}

\* C2: with a CA selector and a Cert selector that do not have both forms
\* set, SafeTLSConfig.Validate fails if and only if exactly one of Cert and
\* KeySecret is populated, whatever ServerName and InsecureSkipVerify are.
C2_SafeTLSFailsIffExactlyOneOfCertKey ==
    (IsSafeTLS /\ Returned("SafeTLSConfig.Validate")
       /\ ~BothForms(Safe.CA) /\ ~BothForms(Safe.Cert)) =>
        (Failed("SafeTLSConfig.Validate") <=>
            ((Safe.Cert.Secret # Nil \/ Safe.Cert.ConfigMap # Nil) # (Safe.KeySecret # Nil)))

C2_Witness ==
    /\ obj.kind = "SafeTLSConfig"
    /\ Safe.Cert = SecretOrConfigMapZero /\ Safe.KeySecret # Nil
    /\ Safe.CA.ConfigMap # Nil /\ Safe.CA.Secret = Nil
    /\ Safe.ServerName # "" /\ Safe.InsecureSkipVerify
    /\ Failed("SafeTLSConfig.Validate")

IsTLS == obj.kind = "TLSConfig"

SelectorSet(sel) == sel.Secret # Nil \/ sel.ConfigMap # Nil

CASlotConflict == SelectorSet(Val.SafeTLSConfig.CA) /\ Val.CAFile # ""

CertSlotConflict == SelectorSet(Val.SafeTLSConfig.Cert) /\ Val.CertFile # ""

KeySlotConflict == Val.SafeTLSConfig.KeySecret # Nil /\ Val.KeyFile # ""

SlotConflict == CASlotConflict \/ CertSlotConflict \/ KeySlotConflict

\* C3: when the reference form and the file-path form of one slot (CA, Cert
\* or Key) are both populated, TLSConfig.Validate returns an error, whatever
\* the other fields are.
C3_SlotConflictAlwaysFails ==
    (IsTLS /\ Returned("TLSConfig.Validate") /\ SlotConflict) =>
        /\ Failed("TLSConfig.Validate")
        /\ ret["TLSConfig.Validate"].type = "TLSConfigValidationError"

C3_Witness ==
    /\ IsTLS
    /\ KeySlotConflict /\ ~CASlotConflict /\ ~CertSlotConflict
    /\ Val.CertFile # ""
    /\ Failed("TLSConfig.Validate")

MergedHasCert == Val.CertFile # "" \/ SelectorSet(Val.SafeTLSConfig.Cert)

MergedHasKey == Val.KeyFile # "" \/ Val.SafeTLSConfig.KeySecret # Nil

\* C4: with no slot conflict and with CA and Cert selectors that do not have
\* both forms set, TLSConfig.Validate fails if and only if hasCert # hasKey
\* over the merged reference-or-file view, and the error names the missing
\* side; a cert by reference with a key by file path (and the reverse) is
\* accepted.
C4_MergedCertKeyPairing ==
    (IsTLS /\ Returned("TLSConfig.Validate") /\ ~SlotConflict
       /\ ~BothForms(Val.SafeTLSConfig.CA) /\ ~BothForms(Val.SafeTLSConfig.Cert)) =>
        ret["TLSConfig.Validate"] =
            IF MergedHasCert /\ ~MergedHasKey
            THEN Error("TLSConfigValidationError",
                       "tls config can not specify client cert without client key")
            ELSE IF MergedHasKey /\ ~MergedHasCert
            THEN Error("TLSConfigValidationError",
                       "tls config can not specify client key without client cert")
            ELSE NilError

C4_Witness ==
    /\ IsTLS
    /\ SelectorSet(Val.SafeTLSConfig.Cert) /\ ~BothForms(Val.SafeTLSConfig.Cert)
    /\ Val.CertFile = ""
    /\ Val.SafeTLSConfig.KeySecret = Nil /\ Val.KeyFile # ""
    /\ Accepted("TLSConfig.Validate")

BothTLSValidatorsReturned ==
    IsTLS /\ Returned("SafeTLSConfig.Validate") /\ Returned("TLSConfig.Validate")

\* C5 as stated: every TLSConfig whose embedded SafeTLSConfig is rejected by
\* SafeTLSConfig.Validate is rejected by TLSConfig.Validate, for every value
\* of CAFile, CertFile and KeyFile.
C5_Original ==
    (BothTLSValidatorsReturned /\ Failed("SafeTLSConfig.Validate")) =>
        Failed("TLSConfig.Validate")

\* The half of the cert/key pair that the references leave out is given as
\* a file path, and no slot is given twice.
MissingHalfGivenByFile ==
    /\ ~BothForms(Val.SafeTLSConfig.CA) /\ ~BothForms(Val.SafeTLSConfig.Cert)
    /\ ~SlotConflict
    /\ \/ SelectorSet(Val.SafeTLSConfig.Cert) /\ Val.SafeTLSConfig.KeySecret = Nil
          /\ Val.KeyFile # ""
       \/ Val.SafeTLSConfig.KeySecret # Nil /\ ~SelectorSet(Val.SafeTLSConfig.Cert)
          /\ Val.CertFile # ""

\* C5 (amended): a TLSConfig whose embedded SafeTLSConfig is rejected by
\* SafeTLSConfig.Validate is rejected by TLSConfig.Validate, for every value
\* of CAFile, CertFile and KeyFile, except when the only fault is a cert/key
\* pairing whose missing half is given as a file path (KeyFile for a Cert
\* selector without KeySecret, CertFile for a KeySecret without Cert
\* selector) with no slot conflict: those TLSConfig.Validate accepts.
C5_SafeRejectionCarriesOverUnlessFileCompletes ==
    (BothTLSValidatorsReturned /\ Failed("SafeTLSConfig.Validate")) =>
        (Failed("TLSConfig.Validate") <=> ~MissingHalfGivenByFile)

C5_Witness ==
    /\ BothTLSValidatorsReturned
    /\ BothForms(Val.SafeTLSConfig.Cert)
    /\ Val.SafeTLSConfig.KeySecret # Nil
    /\ Val.CAFile # "" /\ Val.CertFile = "" /\ Val.KeyFile = ""
    /\ Failed("SafeTLSConfig.Validate")
    /\ Failed("TLSConfig.Validate")

IsOAuth2 == obj.kind = "OAuth2"

\* C6: an OAuth2 with an empty token URL is rejected with the
\* missing-token-URL error, whatever the client-id selector (empty, one
\* form, both forms) and the other fields are: the token-URL rule comes
\* before the client-id rules.
C6_EmptyTokenURLFirst ==
    (IsOAuth2 /\ Returned("OAuth2.Validate") /\ Val.TokenURL = "") =>
        ret["OAuth2.Validate"] =
            Error("OAuth2ValidationError", "OAuth2 token url must be specified")

C6_Witness ==
    /\ IsOAuth2
    /\ Val.TokenURL = ""
    /\ BothForms(Val.ClientID)
    /\ Failed("OAuth2.Validate")

\* C7: with a non-empty token URL, OAuth2.Validate fails with the
\* missing-client-id error when neither client-id form is set, fails with
\* an OAuth2 error whose message is the selector's own message behind the
\* context "invalid OAuth2 client id: " when both forms are set, and
\* succeeds when exactly one form is set.
C7_ClientIDRules ==
    (IsOAuth2 /\ Returned("OAuth2.Validate") /\ Val.TokenURL # "") =>
        ret["OAuth2.Validate"] =
            IF Val.ClientID.Secret = Nil /\ Val.ClientID.ConfigMap = Nil
            THEN Error("OAuth2ValidationError", "OAuth2 client id must be specified")
            ELSE IF BothForms(Val.ClientID)
            THEN Error("OAuth2ValidationError",
                       "invalid OAuth2 client id: SecretOrConfigMap can not specify both Secret and ConfigMap")
            ELSE NilError

C7_Witness ==
    /\ IsOAuth2
    /\ Val.TokenURL # ""
    /\ BothForms(Val.ClientID)
    /\ Failed("OAuth2.Validate")

\* The SafeAuthorization that SafeAuthorization.Validate ran on, when present.
IsPresentSafeAuth ==
    obj.kind \in {"SafeAuthorization", "Authorization"} /\ SafeAuthorizationOf(obj) # Nil

SafeAuth == Deref(SafeAuthorizationOf(obj))

NormalizedType(a) == ToLower(TrimSpace(a.Type))

ReservedTypeError ==
    Error("AuthorizationValidationError",
          "Authorization type cannot be set to \"basic\", use \"basic_auth\" instead")

\* C8: a present SafeAuthorization whose type, trimmed of surrounding
\* whitespace and lower-cased, is "basic" is rejected with the
\* reserved-type error, with or without credentials.
C8_SafeAuthReservedTypeFirst ==
    (IsPresentSafeAuth /\ Returned("SafeAuthorization.Validate")
       /\ NormalizedType(SafeAuth) = Basic) =>
        ret["SafeAuthorization.Validate"] = ReservedTypeError

C8_Witness ==
    /\ obj.kind = "SafeAuthorization" /\ obj.ptr # Nil
    /\ SafeAuth.Type = <<11, 66, 65, 83, 304, 67, 160>>
    /\ SafeAuth.Credentials = Nil
    /\ ret["SafeAuthorization.Validate"] = ReservedTypeError

\* C9: a present SafeAuthorization whose normalized type is not "basic" is
\* accepted if and only if its credentials reference is set; without it the
\* result is the missing-credentials error.
C9_SafeAuthNeedsCredentials ==
    (IsPresentSafeAuth /\ Returned("SafeAuthorization.Validate")
       /\ NormalizedType(SafeAuth) # Basic) =>
        ret["SafeAuthorization.Validate"] =
            IF SafeAuth.Credentials # Nil
            THEN NilError
            ELSE Error("AuthorizationValidationError", "Authorization credentials are required")

C9_Witness ==
    /\ obj.kind = "SafeAuthorization" /\ obj.ptr # Nil
    /\ SafeAuth.Type = <<98, 97, 32, 115, 105, 99>>
    /\ SafeAuth.Credentials = Nil
    /\ Failed("SafeAuthorization.Validate")

IsAuth == obj.kind = "Authorization"

\* C10: an Authorization whose normalized type is not "basic" is rejected if
\* and only if both the credentials reference and the credentials-file path
\* are set; with both unset, or with only the file set, it is accepted.
C10_AuthFailsIffBothCredentialForms ==
    (IsAuth /\ Returned("Authorization.Validate")
       /\ NormalizedType(Val.SafeAuthorization) # Basic) =>
        (Failed("Authorization.Validate") <=>
            (Val.SafeAuthorization.Credentials # Nil /\ Val.CredentialsFile # ""))

C10_Witness ==
    /\ IsAuth
    /\ NormalizedType(Val.SafeAuthorization) # Basic
    /\ Val.SafeAuthorization.Credentials = Nil /\ Val.CredentialsFile = ""
    /\ Accepted("Authorization.Validate")

\* C11: the type restriction applies to the file-augmented descriptor too:
\* an Authorization whose type, trimmed and lower-cased, is "basic" is
\* rejected, for every combination of credentials and credentials file.
C11_AuthBasicAlwaysRejected ==
    (IsAuth /\ Returned("Authorization.Validate")
       /\ NormalizedType(Val.SafeAuthorization) = Basic) =>
        /\ Failed("Authorization.Validate")
        /\ ret["Authorization.Validate"].type = "AuthorizationValidationError"

C11_Witness ==
    /\ IsAuth
    /\ Val.SafeAuthorization.Type = <<11, 66, 97, 115, 105, 99>>
    /\ Val.SafeAuthorization.Credentials = Nil /\ Val.CredentialsFile # ""
    /\ Failed("Authorization.Validate")

IsProbeTargets == obj.kind = "ProbeTargets"

\* C12: ProbeTargets.Validate fails, with the no-target-source error, if and
\* only if the static source and the ingress source are both absent; static
\* only, ingress only and both present are accepted.
C12_ProbeTargetsFailIffNoSource ==
    (IsProbeTargets /\ Returned("ProbeTargets.Validate")) =>
        ret["ProbeTargets.Validate"] =
            IF Val.StaticConfig = Nil /\ Val.Ingress = Nil
            THEN Error("ProbeTargetsValidationError",
                       "at least one of .spec.targets.staticConfig and .spec.targets.ingress is required")
            ELSE NilError

C12_Witness ==
    /\ IsProbeTargets
    /\ Val.StaticConfig # Nil /\ Val.Ingress = Nil
    /\ Accepted("ProbeTargets.Validate")

IsObjectReference == obj.kind = "ObjectReference"

GroupKindOutcome == ret["ObjectReference.GroupKind"]

\* C13: for a resource name in the fixed table GroupKind returns the kind
\* the table maps it to; for a name outside the table it panics instead of
\* returning; and the outcome is deterministic: calling again on the same
\* reference gives the outcome already seen.
C13_GroupKindByTableElsePanic ==
    [][(IsObjectReference' /\ GroupKindOutcome' # NotCalled) =>
          /\ IF Val'.Resource \in DOMAIN ResourceToKindLiteral
             THEN /\ GroupKindOutcome'.type = "schema.GroupKind"
                  /\ GroupKindOutcome'.Kind = ResourceToKindLiteral[Val'.Resource]
             ELSE GroupKindOutcome' = Panic(FailedToMap(Val'.Resource))
          /\ GroupKindOutcome # NotCalled => GroupKindOutcome' = GroupKindOutcome]_vars

C13_Witness ==
    /\ IsObjectReference
    /\ Val.Resource = "pods"
    /\ GroupKindOutcome = Panic("failed to map resource \"pods\" to a kind")

\* C14: the table is in lock-step with the schema's enumeration of resource
\* names: every name the enumeration allows is a key of resourceToKind, so
\* GroupKind does not panic for a schema-valid reference.
C14_SchemaNamesResolve ==
    (IsObjectReference /\ Val.Resource \in SchemaResourceEnum
       /\ GroupKindOutcome # NotCalled) =>
        /\ Val.Resource \in DOMAIN resourceToKind
        /\ GroupKindOutcome.type = "schema.GroupKind"

GroupResourceOutcome == ret["ObjectReference.GroupResource"]

ExpectedGroup == IF Val.Group = "" THEN "monitoring.coreos.com" ELSE Val.Group

\* C15: the group that GroupResource returns, and the group that GroupKind
\* returns when it returns, is the default group constant when the
\* reference's Group is empty and the reference's own Group otherwise; the
\* two operations return the same group for the same reference.
C15_GroupDefaulted ==
    IsObjectReference =>
        /\ GroupResourceOutcome # NotCalled => GroupResourceOutcome.Group = ExpectedGroup
        /\ GroupKindOutcome \notin {NotCalled, Panic(FailedToMap(Val.Resource))} =>
               GroupKindOutcome.Group = ExpectedGroup

C15_Witness ==
    /\ IsObjectReference
    /\ Val.Group = "example.io"
    /\ GroupResourceOutcome # NotCalled /\ GroupResourceOutcome.Group = "example.io"
    /\ GroupKindOutcome # NotCalled /\ GroupKindOutcome.type = "schema.GroupKind"
    /\ GroupKindOutcome.Group = "example.io"

ValidatorOps ==
    {"SecretOrConfigMap.Validate", "SafeTLSConfig.Validate", "TLSConfig.Validate",
     "OAuth2.Validate", "SafeAuthorization.Validate", "Authorization.Validate",
     "ProbeTargets.Validate", "WebTLSConfig.Validate"}

ValidationErrorTypes ==
    {"SecretOrConfigMapValidationError", "TLSConfigValidationError", "OAuth2ValidationError",
     "AuthorizationValidationError", "ProbeTargetsValidationError", "WebTLSConfigError"}

\* C16: no validator mutates its input: over every call, accepted or
\* rejected, every field of the input and the resourceToKind table are
\* unchanged, and the only effect is the result of the one operation
\* called, which for a validator is success or one error with a message.
C16_ValidatorsDoNotMutate ==
    [][/\ obj' = obj
       /\ resourceToKind' = resourceToKind
       /\ \E op \in Ops : ret' = [ret EXCEPT ![op] = ret'[op]]
       /\ \A op \in ValidatorOps :
             ret'[op] # ret[op] =>
                 \/ ret'[op] = NilError
                 \/ ret'[op].type \in ValidationErrorTypes /\ ret'[op].err # ""]_vars

C16_Witness ==
    /\ IsAuth
    /\ Val.SafeAuthorization.Type = <<32, 66, 97, 115, 105, 99>>
    /\ Val.SafeAuthorization.Credentials # Nil /\ Val.CredentialsFile = ""
    /\ Failed("Authorization.Validate")
    /\ Failed("SafeAuthorization.Validate")
    /\ resourceToKind = ResourceToKindLiteral

\* C17: validators and resolver lookups run concurrently without
\* synchronization: in every interleaving of the workers' calls, on one
\* shared object, each finished call has the result that the call has when
\* it runs alone, and the shared table is as it was initialized.
C17_ConcurrentCallsAsAlone ==
    /\ resourceToKind = ResourceToKindLiteral
    /\ \A w \in Workers :
          workers[w].pc = "done" =>
              workers[w].res = Outcome(workers[w].op, obj, ResourceToKindLiteral)

C17_Witness ==
    /\ IsObjectReference /\ Val.Resource = "probes"
    /\ workers[1].pc = "done" /\ workers[1].op = "ObjectReference.GroupKind"
    /\ workers[1].res.type = "schema.GroupKind" /\ workers[1].res.Kind = "Probe"
    /\ workers[2].pc = "found"

SafeTLSOutcome == ret["SafeTLSConfig.Validate"]

\* C18 as stated: the error SafeTLSConfig.Validate returns for a CA selector
\* with both forms set identifies the CA and differs from the error it
\* returns for a Cert selector with both forms set.
C18_Original ==
    (IsSafeTLS /\ Returned("SafeTLSConfig.Validate") /\ BothForms(Safe.CA)) =>
        \A c \in SafeTLSConfigs :
            (~BothForms(c.CA) /\ BothForms(c.Cert)) => SafeTLSOutcome # SafeTLSConfig_Validate(c)

SelectorConflictError ==
    Error("SecretOrConfigMapValidationError",
          "SecretOrConfigMap can not specify both Secret and ConfigMap")

\* C18 (amended): SafeTLSConfig.Validate propagates the failure of the
\* nested CA selector and the failure of the nested Cert selector unchanged:
\* in both cases the error returned is the selector's own error, of the same
\* type and with the same message, so the error does not tell the CA from
\* the Cert.
C18_SelectorErrorPropagatedUnchanged ==
    (IsSafeTLS /\ Returned("SafeTLSConfig.Validate")
       /\ (BothForms(Safe.CA) \/ BothForms(Safe.Cert))) =>
        SafeTLSOutcome = SelectorConflictError

C18_Witness ==
    /\ obj.kind = "SafeTLSConfig"
    /\ Safe.CA = SecretOrConfigMapZero /\ BothForms(Safe.Cert)
    /\ Safe.KeySecret # Nil
    /\ SafeTLSOutcome = SelectorConflictError

TLSOutcome == ret["TLSConfig.Validate"]

SlotConflictMessages ==
    {"tls config can not both specify CAFile and CA",
     "tls config can not both specify CertFile and Cert",
     "tls config can not both specify KeyFile and KeySecret"}

IncompletePairMessages ==
    {"tls config can not specify client cert without client key",
     "tls config can not specify client key without client cert"}

SlotConflictAndIncompletePair ==
    IsTLS /\ Returned("TLSConfig.Validate") /\ SlotConflict /\ MergedHasCert # MergedHasKey

\* C19 as stated: for an input that breaks a slot exclusion (CA, Cert or Key
\* given as reference and as file) and the cert/key completeness, the error
\* returned is a conflict error.
C19_Original ==
    SlotConflictAndIncompletePair => TLSOutcome.err \in SlotConflictMessages

\* C19 (amended): for an input that breaks a slot exclusion and the cert/key
\* completeness, the one error returned is never the incomplete-pair error:
\* it is a slot conflict error, except that a CA selector with both forms
\* set and no CAFile is tested before the Cert and Key exclusions and gives
\* the CA-is-invalid error.
C19_ExclusionsBeforeCompleteness ==
    SlotConflictAndIncompletePair =>
        /\ TLSOutcome.type = "TLSConfigValidationError"
        /\ TLSOutcome.err \notin IncompletePairMessages
        /\ IF BothForms(Val.SafeTLSConfig.CA) /\ Val.CAFile = ""
           THEN TLSOutcome.err = "tls config CA is invalid"
           ELSE TLSOutcome.err \in SlotConflictMessages

C19_Witness ==
    /\ IsTLS
    /\ KeySlotConflict /\ ~CASlotConflict /\ ~CertSlotConflict
    /\ ~MergedHasCert
    /\ TLSOutcome.err = "tls config can not both specify KeyFile and KeySecret"

AuthOutcome == ret["Authorization.Validate"]

ConflictingCredentialsError ==
    Error("AuthorizationValidationError",
          "Authorization can not specify both Credentials and CredentialsFile")

BasicWithBothCredentialForms ==
    /\ IsAuth /\ Returned("Authorization.Validate")
    /\ NormalizedType(Val.SafeAuthorization) = Basic
    /\ Val.SafeAuthorization.Credentials # Nil /\ Val.CredentialsFile # ""

\* C20 as stated: the reserved-type rule is tested before the
\* credentials/credentials-file exclusion, so an Authorization of type
\* "basic" with both credentials and credentials file set is rejected with
\* the reserved-type error.
C20_Original ==
    BasicWithBothCredentialForms => AuthOutcome = ReservedTypeError

\* C20 (amended): Authorization.Validate tests the credentials/credentials-
\* file exclusion before the reserved-type rule and returns the first rule
\* broken: an Authorization of type "basic" with both credentials and
\* credentials file set is rejected with the conflicting-credentials error,
\* one of type "basic" with at most one of them set with the reserved-type
\* error.
C20_ExclusionBeforeReservedType ==
    (IsAuth /\ Returned("Authorization.Validate")
       /\ NormalizedType(Val.SafeAuthorization) = Basic) =>
        AuthOutcome =
            IF Val.SafeAuthorization.Credentials # Nil /\ Val.CredentialsFile # ""
            THEN ConflictingCredentialsError
            ELSE ReservedTypeError

C20_Witness ==
    /\ BasicWithBothCredentialForms
    /\ Val.SafeAuthorization.Type = Basic
    /\ AuthOutcome = ConflictingCredentialsError

\* C21: SafeTLSConfig.Validate applies its rules in the order CA selector,
\* Cert selector, missing key, missing cert and returns the first one
\* broken: a selector with both forms set gives the selector-conflict error
\* even when the cert/key pairing is broken too; otherwise Cert without
\* KeySecret gives the missing-key error and KeySecret without Cert the
\* missing-cert error.
C21_SafeTLSRuleOrder ==
    (IsSafeTLS /\ Returned("SafeTLSConfig.Validate")) =>
        SafeTLSOutcome =
            IF BothForms(Safe.CA) \/ BothForms(Safe.Cert)
            THEN SelectorConflictError
            ELSE IF SelectorSet(Safe.Cert) /\ Safe.KeySecret = Nil
            THEN Error("TLSConfigValidationError", "client cert specified without client key")
            ELSE IF Safe.KeySecret # Nil /\ ~SelectorSet(Safe.Cert)
            THEN Error("TLSConfigValidationError", "client key specified without client cert")
            ELSE NilError

C21_Witness ==
    /\ obj.kind = "SafeTLSConfig"
    /\ ~SelectorSet(Safe.CA)
    /\ BothForms(Safe.Cert) /\ Safe.KeySecret = Nil
    /\ SafeTLSOutcome = SelectorConflictError

NoFilePath == Val.CAFile = "" /\ Val.CertFile = "" /\ Val.KeyFile = ""

\* C22: for a TLSConfig whose CAFile, CertFile and KeyFile are all empty,
\* TLSConfig.Validate accepts if and only if SafeTLSConfig.Validate accepts
\* the embedded SafeTLSConfig.
C22_ValidatorsAgreeWithoutFiles ==
    (BothTLSValidatorsReturned /\ NoFilePath) =>
        (Accepted("TLSConfig.Validate") <=> Accepted("SafeTLSConfig.Validate"))

C22_Witness ==
    /\ BothTLSValidatorsReturned /\ NoFilePath
    /\ BothForms(Val.SafeTLSConfig.CA)
    /\ SelectorSet(Val.SafeTLSConfig.Cert) /\ ~BothForms(Val.SafeTLSConfig.Cert)
    /\ Val.SafeTLSConfig.KeySecret # Nil
    /\ Failed("TLSConfig.Validate") /\ Failed("SafeTLSConfig.Validate")

\* C23: every error of TLSConfig.Validate is a TLSConfigValidationError; a
\* CA or Cert selector with both forms set is reported as "tls config CA is
\* invalid" / "tls config Cert is invalid", never as the selector's own
\* error; and within a slot the reference-or-file exclusion comes before
\* the selector's validity, so a CA selector with both forms set together
\* with a CAFile gives the CAFile/CA conflict.
C23_TLSErrorsOfOneKind ==
    (IsTLS /\ Failed("TLSConfig.Validate")) =>
        /\ TLSOutcome.type = "TLSConfigValidationError"
        /\ BothForms(Val.SafeTLSConfig.CA) =>
               TLSOutcome.err = IF Val.CAFile # ""
                                THEN "tls config can not both specify CAFile and CA"
                                ELSE "tls config CA is invalid"
        /\ (BothForms(Val.SafeTLSConfig.Cert) /\ ~BothForms(Val.SafeTLSConfig.CA)
              /\ ~CASlotConflict) =>
               TLSOutcome.err = IF Val.CertFile # ""
                                THEN "tls config can not both specify CertFile and Cert"
                                ELSE "tls config Cert is invalid"

C23_Witness ==
    /\ IsTLS
    /\ BothForms(Val.SafeTLSConfig.CA) /\ Val.CAFile # ""
    /\ BothForms(Val.SafeTLSConfig.Cert) /\ Val.CertFile = ""
    /\ TLSOutcome =
           Error("TLSConfigValidationError", "tls config can not both specify CAFile and CA")

\* C24: GroupResource never panics: for every reference, one whose resource
\* name is not a key of the table included, it returns the resource name
\* as it is together with the defaulted group.
C24_GroupResourceTotal ==
    (IsObjectReference /\ GroupResourceOutcome # NotCalled) =>
        GroupResourceOutcome =
            [type |-> "schema.GroupResource", Resource |-> Val.Resource, Group |-> ExpectedGroup]

C24_Witness ==
    /\ IsObjectReference
    /\ Val.Resource = "prometheusrules" /\ Val.Group = ""
    /\ GroupResourceOutcome.type = "schema.GroupResource"
    /\ GroupResourceOutcome.Resource = "prometheusrules"
    /\ GroupKindOutcome.type = "panic"

IsWebTLS == obj.kind = "WebTLSConfig"

WebTLSOutcome == ret["WebTLSConfig.Validate"]

\* C25: WebTLSConfig.Validate accepts a nil config, and accepts a present
\* one if and only if the ClientCA selector does not have both forms set,
\* the Cert selector has exactly one form set and KeySecret is not the zero
\* value; the rules are tested in the order ClientCA validity, Cert
\* defined, Cert validity, Key defined, and the first one broken is the
\* error returned.
C25_WebTLSRules ==
    (IsWebTLS /\ Returned("WebTLSConfig.Validate")) =>
        IF obj.ptr = Nil
        THEN WebTLSOutcome = NilError
        ELSE /\ Accepted("WebTLSConfig.Validate") <=>
                   /\ ~BothForms(Val.ClientCA)
                   /\ (Val.Cert.Secret # Nil) # (Val.Cert.ConfigMap # Nil)
                   /\ ~(Val.KeySecret.Name = "" /\ Val.KeySecret.Key = ""
                          /\ Val.KeySecret.Optional = Nil)
             /\ WebTLSOutcome =
                   IF BothForms(Val.ClientCA)
                   THEN Error("WebTLSConfigError",
                              "invalid web tls config: SecretOrConfigMap can not specify both Secret and ConfigMap")
                   ELSE IF ~SelectorSet(Val.Cert)
                   THEN Error("WebTLSConfigError", "invalid web tls config: cert must be defined")
                   ELSE IF BothForms(Val.Cert)
                   THEN Error("WebTLSConfigError",
                              "invalid web tls config: SecretOrConfigMap can not specify both Secret and ConfigMap")
                   ELSE IF Val.KeySecret.Name = "" /\ Val.KeySecret.Key = ""
                           /\ Val.KeySecret.Optional = Nil
                   THEN Error("WebTLSConfigError", "invalid web tls config: key must be defined")
                   ELSE NilError

C25_Witness ==
    /\ IsWebTLS /\ obj.ptr # Nil
    /\ ~SelectorSet(Val.ClientCA)
    /\ ~SelectorSet(Val.Cert)
    /\ Val.KeySecret.Name = "" /\ Val.KeySecret.Key = "" /\ Val.KeySecret.Optional = Nil
    /\ WebTLSOutcome = Error("WebTLSConfigError", "invalid web tls config: cert must be defined")

\* C26: a nil SafeAuthorization is accepted by SafeAuthorization.Validate;
\* and for an Authorization with an empty credentials-file path, acceptance
\* of the embedded SafeAuthorization by SafeAuthorization.Validate implies
\* acceptance by Authorization.Validate.  The converse does not hold: an
\* Authorization of another type than "basic" without credentials is
\* accepted by Authorization.Validate and rejected by
\* SafeAuthorization.Validate.
C26_SafeAcceptanceImpliesAuthAcceptance ==
    /\ (obj.kind = "SafeAuthorization" /\ obj.ptr = Nil
          /\ Returned("SafeAuthorization.Validate")) =>
           Accepted("SafeAuthorization.Validate")
    /\ (IsAuth /\ Returned("SafeAuthorization.Validate") /\ Returned("Authorization.Validate")
          /\ Val.CredentialsFile = "" /\ Accepted("SafeAuthorization.Validate")) =>
           Accepted("Authorization.Validate")
    /\ (IsAuth /\ Returned("SafeAuthorization.Validate") /\ Returned("Authorization.Validate")
          /\ Val.CredentialsFile = "" /\ Val.SafeAuthorization.Credentials = Nil
          /\ NormalizedType(Val.SafeAuthorization) # Basic) =>
           (Accepted("Authorization.Validate") /\ Failed("SafeAuthorization.Validate"))

C26_Witness ==
    /\ IsAuth
    /\ Val.CredentialsFile = "" /\ Val.SafeAuthorization.Credentials # Nil
    /\ Val.SafeAuthorization.Type = <<66, 101, 97, 114, 101, 114>>
    /\ Accepted("SafeAuthorization.Validate")
    /\ Accepted("Authorization.Validate")

OAuth2Outcome == ret["OAuth2.Validate"]

\* C27: the outcome of OAuth2.Validate depends on the token URL and the
\* client-id selector only: every OAuth2 that agrees with the validated one
\* on these two fields has the same outcome, whatever its client secret,
\* scopes and endpoint parameters; so an OAuth2 with the zero client secret
\* is accepted when its token URL is set and its client id has one form.
C27_OAuth2OutcomeOfTwoFields ==
    (IsOAuth2 /\ Returned("OAuth2.Validate")) =>
        /\ \A o \in OAuth2s :
              (o.TokenURL = Val.TokenURL /\ o.ClientID = Val.ClientID) =>
                  OAuth2_Validate(o) = OAuth2Outcome
        /\ (Val.TokenURL # "" /\ SelectorSet(Val.ClientID) /\ ~BothForms(Val.ClientID)) =>
              OAuth2Outcome = NilError

C27_Witness ==
    /\ IsOAuth2
    /\ Val.TokenURL # "" /\ Val.ClientID.Secret # Nil /\ Val.ClientID.ConfigMap = Nil
    /\ Val.ClientSecret = [Name |-> "", Key |-> "", Optional |-> Nil]
    /\ Val.Scopes = <<>> /\ Val.EndpointParams = <<>>
    /\ OAuth2Outcome = NilError

\* C28: ProbeTargets.Validate tests the presence of the two sources, not
\* what they hold: a static source that is present with an empty target
\* list is accepted with the ingress source absent, and so is an ingress
\* source that is present with an empty label selector.
C28_ProbeTargetsPresenceOnly ==
    (IsProbeTargets /\ Returned("ProbeTargets.Validate")) =>
        /\ (Val.StaticConfig = Ptr([Targets |-> <<>>]) /\ Val.Ingress = Nil) =>
               Accepted("ProbeTargets.Validate")
        /\ (Val.Ingress = Ptr([Selector |-> <<>>]) /\ Val.StaticConfig = Nil) =>
               Accepted("ProbeTargets.Validate")

C28_Witness ==
    /\ IsProbeTargets
    /\ Val.StaticConfig # Nil /\ Deref(Val.StaticConfig).Targets = <<>>
    /\ Val.Ingress = Nil
    /\ Accepted("ProbeTargets.Validate")

\* C29: every validator is total on a present receiver: the call can be
\* taken, and it returns success or one validation error with a message,
\* never a panic; of all the operations only GroupKind has a panic among
\* its outcomes.
C29_ValidatorsTotal ==
    obj.ptr # Nil =>
        /\ \A op \in ValidatorOps :
              Returned(op) =>
                  \/ ret[op] = NilError
                  \/ ret[op].type \in ValidationErrorTypes /\ ret[op].err # ""
        /\ \A op \in Ops : ret[op].type = "panic" => op = "ObjectReference.GroupKind"
        /\ obj.kind = "SecretOrConfigMap" => ENABLED Call_SecretOrConfigMap_Validate
        /\ IsSafeTLS => ENABLED Call_SafeTLSConfig_Validate
        /\ IsTLS => ENABLED Call_TLSConfig_Validate
        /\ IsOAuth2 => ENABLED Call_OAuth2_Validate
        /\ IsPresentSafeAuth => ENABLED Call_SafeAuthorization_Validate
        /\ IsAuth => ENABLED Call_Authorization_Validate
        /\ IsProbeTargets => ENABLED Call_ProbeTargets_Validate
        /\ IsWebTLS => ENABLED Call_WebTLSConfig_Validate

C29_Witness ==
    /\ IsProbeTargets
    /\ Val.StaticConfig = Nil /\ Val.Ingress = Nil
    /\ ret["ProbeTargets.Validate"].type = "ProbeTargetsValidationError"
====
